---- MODULE Spec2Model ----
(***************************************************************************)
(* AnalyticsMP (src/src/AnalyticsMP.js): a Google Apps Script client of    *)
(* the Google Analytics Measurement Protocol.                              *)
(*                                                                         *)
(* Every script execution is a process with its own globals, among them    *)
(* the cached client identifier AnalyticsMP_.clientId.  The executions     *)
(* share the property stores.  A public call runs on its process until it  *)
(* reaches a property-store access; the store accesses of different        *)
(* executions interleave.                                                  *)
(***************************************************************************)
EXTENDS Integers, Sequences, FiniteSets, TLC

(* ------------------------------ bounds --------------------------------- *)

\* Number of script executions (processes) running against the stores.
NumProcs == 2

\* Number of identifiers Utilities.getUuid() can hand out in one run.
MaxUuid == 2

Procs == 1..NumProcs

(* --------------------------- JavaScript values ------------------------- *)

Str(s) == [t |-> "str", v |-> s]
Num(s) == [t |-> "num", v |-> s]
Undefined == [t |-> "undef", v |-> "undefined"]
Null == [t |-> "null", v |-> "null"]

\* ToBoolean: the values that `!x` and `x || y` treat as false.
Falsy(x) ==
  \/ x.t \in {"undef", "null"}
  \/ x.t = "str" /\ x.v = ""
  \/ x.t = "num" /\ x.v \in {"0", "NaN"}
  \/ x.t = "bool" /\ x.v = "false"

Truthy(x) == ~Falsy(x)

\* An object is the sequence of its own properties in insertion order.
Keys(o) == {o[i].k : i \in 1..Len(o)}

HasKey(o, key) == key \in Keys(o)

\* o[key]: undefined when the object has no such property.
GetKey(o, key) ==
  IF HasKey(o, key)
  THEN (CHOOSE e \in {o[i] : i \in 1..Len(o)} : e.k = key).v
  ELSE Undefined

\* o[key] = val: an existing property keeps its place, a new one is appended.
SetKey(o, key, val) ==
  IF HasKey(o, key)
  THEN [i \in 1..Len(o) |-> IF o[i].k = key THEN [k |-> key, v |-> val] ELSE o[i]]
  ELSE Append(o, [k |-> key, v |-> val])

\* JSON.parse(JSON.stringify(o)) of a flat object: a property whose value is
\* undefined is left out, NaN becomes null, everything else is kept in order.
JsonValue(x) == IF x.t = "num" /\ x.v = "NaN" THEN Null ELSE x

JsonRoundTrip(o) ==
  LET kept == SelectSeq(o, LAMBDA e : e.v.t # "undef")
  IN  [i \in 1..Len(kept) |-> [k |-> kept[i].k, v |-> JsonValue(kept[i].v)]]

\* String(x) followed by encodeURI, on the strings the model uses: a space is
\* percent-encoded, the reserved and unreserved characters are kept.
encodeURI(x) ==
  CASE x.v = "a b" -> "a%20b"
    [] OTHER -> x.v

(* ------------------------------- heap ---------------------------------- *)

\* The caller's object and the copy _addRequiredParameters works on.
CallerRef == "parameters"
CopyRef == "params"

NewHeap(o) == CallerRef :> o

SetProp(heap, ref, key, val) == [heap EXCEPT ![ref] = SetKey(heap[ref], key, val)]

(* ------------------------------ inputs --------------------------------- *)

P(key, val) == [k |-> key, v |-> val]

\* The parameter objects callers pass.
ParamInputs ==
  { << >>,
    << P("tid", Str("UA-1")), P("ec", Str("a b")) >>,
    << P("t", Str("pageview")), P("tid", Str("UA-1")), P("ds", Str("email")) >>,
    << P("tid", Str("")), P("cid", Str("mine")), P("ev", Num("0")) >>,
    << P("tid", Str("UA-1")), P("el", Undefined), P("aip", Str("0")) >> }

\* The values Math.floor(Math.random() * 10E7) can take: 0 .. 10^8 - 1.
ZValues == {Num("0"), Num("99999999")}

\* The property stores: the user properties (the default) and a second one.
Stores == {"user", "document"}

\* optPropertyStore: omitted, or a store.
StoreArgs == {"none", "document"}

\* How a public function is called: as a bare global function (this is the
\* global object) or through the alias object this['AnalyticsMP'].
Receivers == {"global", "AnalyticsMP"}

\* The outcome of the HTTP request: a response, or an exception.
Responses == {"ok", "throws"}

(* ------------------------------- state --------------------------------- *)

VARIABLES
  store,                  \* store[s][key]: the properties of store s
  clientId,               \* clientId[p]: AnalyticsMP_.clientId of process p
  ANALYTICS_TRACKING_ID,  \* the script's global of that name (undefined if unset)
  ErrorHandler,           \* whether the ErrorHandler library is loaded
  pc,                     \* pc[p]: where process p stands in its call
  frame,                  \* frame[p]: the call process p is in
  nextUuid,               \* the identifiers Utilities.getUuid() has handed out, plus 1
  last,                   \* the call the last step completed, as its caller saw it
  firstId,                \* firstId[p]: what getAnalyticsClientId first returned in p
  persisted,              \* persisted[p]: the store and value p wrote successfully
  writes,                 \* writes[p]: setProperty calls p made in its lifetime
  raced                   \* the stores read between another call's read and write

vars == <<store, clientId, ANALYTICS_TRACKING_ID, ErrorHandler, pc, frame,
          nextUuid, last, firstId, persisted, writes, raced>>

StoreKeys == {"clientId", "locale"}

TRACKING_ID_REQUIRED == "A valid Google Analytics tracking ID is required"

COLLECT == "https://www.google-analytics.com/collect"

NoFrame ==
  [op |-> "none", recv |-> "global", parameters |-> << >>, optPropertyStore |-> "none",
   got |-> Undefined]

NoCall ==
  [proc |-> 0, op |-> "none", recv |-> "global", parameters |-> << >>,
   optPropertyStore |-> "none", outcome |-> "none", id |-> Undefined,
   params |-> << >>, caller |-> << >>, copied |-> FALSE, url |-> "",
   got |-> Undefined, reads |-> 0, writes |-> 0, direct |-> 0, delegated |-> 0]

NotPersisted == [s |-> "none", id |-> Undefined]

(* --------------------------- pure functions ---------------------------- *)

\* No copy: params is the caller's object.
NoCopy(heap, ref) == [heap |-> heap, ref |-> ref]

\* var params = JSON.parse(JSON.stringify(parameters)): a new object.
ParseStringify(heap, ref) ==
  [heap |-> heap @@ (CopyRef :> JsonRoundTrip(heap[ref])), ref |-> CopyRef]

\* Statements in sequence: F applied to the value x has once it is computed.
Then(x, F(_)) == CHOOSE y \in {F(v) : v \in {x}} : TRUE

\* The throw left out.
TrackingIdNeverRequired(parameters) == FALSE

\* The condition under which _addRequiredParameters throws.
TrackingIdRequired(parameters) ==
  Then(ParseStringify(NewHeap(parameters), CallerRef), LAMBDA c :
    /\ Falsy(GetKey(c.heap[c.ref], "tid"))
    /\ Falsy(ANALYTICS_TRACKING_ID))

\* heap[ref][key] = heap[ref][key] || default
OrDefault(heap, ref, key, default) ==
  IF Truthy(GetKey(heap[ref], key)) THEN heap ELSE SetProp(heap, ref, key, default)

\* The flag ignored: ds and aip set for every caller.
UrlFetchDefaultsAlways(heap, ref, sentViaUrlFetch) ==
  Then(IF Truthy(GetKey(heap[ref], "ds")) THEN heap
       ELSE SetProp(heap, ref, "ds", Str("urlFetch")),
       LAMBDA h : SetProp(h, ref, "aip", Str("1")))

\* if (sentViaUrlFetch) { params['ds'] = params['ds'] || 'urlFetch'; params['aip'] = '1' }
UrlFetchDefaults(heap, ref, sentViaUrlFetch) ==
  IF sentViaUrlFetch
  THEN Then(OrDefault(heap, ref, "ds", Str("urlFetch")), LAMBDA h :
         SetProp(h, ref, "aip", Str("1")))
  ELSE heap

\* _addRequiredParameters past its throw, with cid the value getAnalyticsClientId
\* returned and z the random number drawn: the heap it leaves and the reference
\* it returns.
addRequiredParameters(parameters, cid, z, sentViaUrlFetch) ==
  Then(ParseStringify(NewHeap(parameters), CallerRef), LAMBDA c :
    LET params == c.ref
        SetTid(h) == IF Falsy(GetKey(h[params], "tid"))
                     THEN SetProp(h, params, "tid", ANALYTICS_TRACKING_ID)
                     ELSE h
        SetCid(h) == SetProp(h, params, "cid", cid)
        SetT(h)   == OrDefault(h, params, "t", Str("event"))
        SetEl(h)  == IF GetKey(h[params], "t") = Str("event") /\ Falsy(GetKey(h[params], "el"))
                     THEN SetProp(h, params, "el", Str(""))
                     ELSE h
        SetV(h)   == SetProp(h, params, "v", Str("1"))
        SetZ(h)   == SetProp(h, params, "z", z)
        SetDsAip(h) == UrlFetchDefaults(h, params, sentViaUrlFetch)
    IN  [heap |-> Then(Then(Then(Then(Then(Then(Then(c.heap,
                    SetTid), SetCid), SetT), SetEl), SetV), SetZ), SetDsAip),
         ref |-> params])

\* key + (params[key] === '' ? '' : '=' + encodeURI(params[key]))
UrlParam(e) == e.k \o (IF e.v = Str("") THEN "" ELSE "=" \o encodeURI(e.v))

RECURSIVE JoinFrom(_, _, _)
\* Array.prototype.join, from element i on.
JoinFrom(seq, i, sep) ==
  IF i > Len(seq) THEN ""
  ELSE IF i = Len(seq) THEN seq[i]
  ELSE seq[i] \o sep \o JoinFrom(seq, i + 1, sep)

\* The string generateAnalyticsTrackingUrl returns for the normalized set.
TrackingUrl(params) ==
  Then([i \in 1..Len(params) |-> UrlParam(params[i])], LAMBDA urlParams :
    COLLECT \o "?" \o JoinFrom(urlParams, 1, "&amp;"))

\* this['ErrorHandler'] inside sendAnalyticsEvent: a property of the receiver.
ThisErrorHandler(recv) == recv = "global" /\ ErrorHandler

\* optPropertyStore || PropertiesService.getUserProperties()
StoreOf(optPropertyStore) == IF optPropertyStore = "none" THEN "user" ELSE optPropertyStore

\* Utilities.getUuid()
getUuid(n) == Str("uuid-" \o ToString(n))

(* ------------------------------ actions -------------------------------- *)

Init ==
  /\ store = [s \in Stores |-> [key \in StoreKeys |-> IF key = "locale" THEN Str("en") ELSE Null]]
  /\ clientId = [p \in Procs |-> Undefined]
  /\ ANALYTICS_TRACKING_ID \in {Undefined, Str("UA-0")}
  /\ ErrorHandler \in BOOLEAN
  /\ pc = [p \in Procs |-> "idle"]
  /\ frame = [p \in Procs |-> NoFrame]
  /\ nextUuid = 1
  /\ last = NoCall
  /\ firstId = [p \in Procs |-> Undefined]
  /\ persisted = [p \in Procs |-> NotPersisted]
  /\ writes = [p \in Procs |-> 0]
  /\ raced = {}

\* What the caller of the call in frame f sees when the call ends.
Seen(p, f, reads, nwrites) ==
  [NoCall EXCEPT !.proc = p, !.op = f.op, !.recv = f.recv, !.parameters = f.parameters,
                 !.optPropertyStore = f.optPropertyStore, !.caller = f.parameters,
                 !.got = f.got, !.reads = reads, !.writes = nwrites]

\* The call of frame f ends with an exception.
Throw(p, f, error, reads, nwrites) ==
  /\ last' = [Seen(p, f, reads, nwrites) EXCEPT !.outcome = error]
  /\ pc' = [pc EXCEPT ![p] = "idle"]
  /\ frame' = [frame EXCEPT ![p] = NoFrame]

\* getAnalyticsClientId has returned cid (line 93): the rest of the public
\* function that called it, up to its return.
Return(p, f, cid, reads, nwrites) ==
  /\ pc' = [pc EXCEPT ![p] = "idle"]
  /\ frame' = [frame EXCEPT ![p] = NoFrame]
  /\ firstId' = IF firstId[p] = Undefined THEN [firstId EXCEPT ![p] = cid] ELSE firstId
  /\ \/ /\ f.op = "getAnalyticsClientId"
        /\ last' = [Seen(p, f, reads, nwrites) EXCEPT !.outcome = "returned", !.id = cid]
     \/ /\ f.op = "generateAnalyticsTrackingUrl"
        /\ \E z \in ZValues :
             \E r \in {addRequiredParameters(f.parameters, cid, z, FALSE)} :
               last' = [Seen(p, f, reads, nwrites) EXCEPT
                          !.outcome = "returned",
                          !.params = r.heap[r.ref],
                          !.caller = r.heap[CallerRef],
                          !.copied = (r.ref # CallerRef),
                          !.url = TrackingUrl(r.heap[r.ref])]
     \/ /\ f.op = "sendAnalyticsEvent"
        /\ \E z \in ZValues, response \in Responses :
             \E r \in {addRequiredParameters(f.parameters, cid, z, TRUE)} :
               last' = [Seen(p, f, reads, nwrites) EXCEPT
                          !.outcome = IF response = "ok" THEN "returned" ELSE "TransportError",
                          !.params = r.heap[r.ref],
                          !.caller = r.heap[CallerRef],
                          !.copied = (r.ref # CallerRef),
                          !.delegated = IF ThisErrorHandler(f.recv) THEN 1 ELSE 0,
                          !.direct = IF ThisErrorHandler(f.recv) THEN 0 ELSE 1]

\* The cached identifier trusted only once this process has stored it.
CacheHitIfPersisted(p) == Truthy(clientId[p]) /\ persisted[p].s # "none"

\* The cached identifier ignored: every call goes to the store.
CacheMiss(p) == FALSE

\* if (AnalyticsMP_.clientId) return AnalyticsMP_.clientId (line 80)
CacheHit(p) == Truthy(clientId[p])

\* The cache keyed by property store: the cached identifier answers only a call
\* for the store this process stored it in.
EnterKeyedByStore(p, f) ==
  IF CacheHit(p) /\ persisted[p].s = StoreOf(f.optPropertyStore)
  THEN /\ Return(p, f, clientId[p], 0, 0)
       /\ UNCHANGED <<store, clientId, nextUuid, persisted, writes, raced>>
  ELSE /\ pc' = [pc EXCEPT ![p] = "getProperty"]
       /\ frame' = [frame EXCEPT ![p] = f]
       /\ last' = NoCall
       /\ UNCHANGED <<store, clientId, nextUuid, firstId, persisted, writes, raced>>

\* getAnalyticsClientId is entered for the call of frame f: it returns the
\* cached identifier, or goes on to read the store.
Enter(p, f) ==
  IF CacheHit(p)
  THEN /\ Return(p, f, clientId[p], 0, 0)
       /\ UNCHANGED <<store, clientId, nextUuid, persisted, writes, raced>>
  ELSE /\ pc' = [pc EXCEPT ![p] = "getProperty"]
       /\ frame' = [frame EXCEPT ![p] = f]
       /\ last' = NoCall
       /\ UNCHANGED <<store, clientId, nextUuid, firstId, persisted, writes, raced>>

\* A direct call of getAnalyticsClientId(optPropertyStore).
getAnalyticsClientId(p, optPropertyStore) ==
  /\ pc[p] = "idle"
  /\ Enter(p, [NoFrame EXCEPT !.op = "getAnalyticsClientId",
                              !.optPropertyStore = optPropertyStore])
  /\ UNCHANGED <<ANALYTICS_TRACKING_ID, ErrorHandler>>

\* A call of a public function that normalizes its parameters first.
Normalizing(p, op, recv, parameters, optPropertyStore) ==
  LET f == [NoFrame EXCEPT !.op = op, !.recv = recv, !.parameters = parameters,
                           !.optPropertyStore = optPropertyStore]
  IN  /\ pc[p] = "idle"
      /\ IF TrackingIdRequired(parameters)
         THEN /\ Throw(p, f, TRACKING_ID_REQUIRED, 0, 0)
              /\ UNCHANGED <<store, clientId, nextUuid, firstId, persisted, writes, raced>>
         ELSE Enter(p, f)
      /\ UNCHANGED <<ANALYTICS_TRACKING_ID, ErrorHandler>>

sendAnalyticsEvent(p, recv, parameters, optPropertyStore) ==
  Normalizing(p, "sendAnalyticsEvent", recv, parameters, optPropertyStore)

generateAnalyticsTrackingUrl(p, parameters, optPropertyStore) ==
  Normalizing(p, "generateAnalyticsTrackingUrl", "global", parameters, optPropertyStore)

\* The read finds nothing, whatever is stored.
StoredNothing(s, key) == Null

\* What getProperty(key) returns on store s: null when the key is not set.
Stored(s, key) == store[s][key]

\* A new identifier whatever was read.
AlwaysCreate(value) == TRUE

\* if (!AnalyticsMP_.clientId), after the read (line 88)
MustCreate(value) == Falsy(value)

\* AnalyticsMP_.clientId = optPropertyStore.getProperty('clientId'), and what
\* follows it up to the write or the return.
getProperty(p) ==
  LET f == frame[p]
      s == StoreOf(f.optPropertyStore)
      value == Stored(s, "clientId")
  IN  /\ pc[p] = "getProperty"
      /\ raced' = IF \E q \in Procs \ {p} : /\ pc[q] = "setProperty"
                                              /\ StoreOf(frame[q].optPropertyStore) = s
                  THEN raced \cup {s} ELSE raced
      /\ IF MustCreate(value)
         THEN /\ nextUuid <= MaxUuid
              /\ clientId' = [clientId EXCEPT ![p] = getUuid(nextUuid)]
              /\ nextUuid' = nextUuid + 1
              /\ pc' = [pc EXCEPT ![p] = "setProperty"]
              /\ frame' = [frame EXCEPT ![p].got = value]
              /\ last' = NoCall
              /\ UNCHANGED firstId
         ELSE /\ clientId' = [clientId EXCEPT ![p] = value]
              /\ Return(p, [f EXCEPT !.got = value], value, 1, 0)
              /\ UNCHANGED nextUuid
      /\ UNCHANGED <<store, ANALYTICS_TRACKING_ID, ErrorHandler, persisted, writes>>

\* getProperty throws: the exception leaves getAnalyticsClientId and its caller.
getPropertyThrows(p) ==
  /\ pc[p] = "getProperty"
  /\ Throw(p, frame[p], "StoreError", 1, 0)
  /\ UNCHANGED <<store, clientId, ANALYTICS_TRACKING_ID, ErrorHandler, nextUuid,
                 firstId, persisted, writes, raced>>

\* The value stored under another key.
PutElsewhere(s, key, value) == [store EXCEPT ![s]["locale"] = value]

\* The store after setProperty(key, value) on store s.
Put(s, key, value) == [store EXCEPT ![s][key] = value]

\* optPropertyStore.setProperty('clientId', AnalyticsMP_.clientId), and the
\* return that follows it.
setProperty(p) ==
  LET f == frame[p]
      s == StoreOf(f.optPropertyStore)
  IN  /\ pc[p] = "setProperty"
      /\ store' = Put(s, "clientId", clientId[p])
      /\ persisted' = [persisted EXCEPT ![p] = [s |-> s, id |-> clientId[p]]]
      /\ writes' = [writes EXCEPT ![p] = @ + 1]
      /\ Return(p, f, clientId[p], 1, 1)
      /\ UNCHANGED <<clientId, ANALYTICS_TRACKING_ID, ErrorHandler, nextUuid, raced>>

\* setProperty throws: nothing is stored, and the exception leaves
\* getAnalyticsClientId and its caller.
setPropertyThrows(p) ==
  /\ pc[p] = "setProperty"
  /\ writes' = [writes EXCEPT ![p] = @ + 1]
  /\ Throw(p, frame[p], "StoreError", 1, 1)
  /\ UNCHANGED <<store, clientId, ANALYTICS_TRACKING_ID, ErrorHandler, nextUuid,
                 firstId, persisted, raced>>

\* The caller has taken the result of the call that just ended (its return
\* value or its exception) and goes on.
Continue ==
  /\ last # NoCall
  /\ last' = NoCall
  /\ UNCHANGED <<store, clientId, ANALYTICS_TRACKING_ID, ErrorHandler, pc, frame,
                 nextUuid, firstId, persisted, writes, raced>>

\* Process p may take a step: the caller of the last call has gone on.
Ready(p) == last = NoCall

\* The parameter objects of the calls of concurrent executions: the empty one,
\* which takes its tracking ID from the script's global.
RacingInputs == {o \in ParamInputs : Len(o) = 0}

\* Concurrent executions: the store accesses of their calls interleave.
Next ==
  \/ Continue
  \/ \E p \in Procs, a \in StoreArgs : Ready(p) /\ getAnalyticsClientId(p, a)
  \/ \E p \in Procs, o \in RacingInputs, a \in StoreArgs :
       Ready(p) /\ sendAnalyticsEvent(p, "global", o, a)
  \/ \E p \in Procs, o \in RacingInputs, a \in StoreArgs :
       Ready(p) /\ generateAnalyticsTrackingUrl(p, o, a)
  \/ \E p \in Procs : Ready(p) /\ getProperty(p)
  \/ \E p \in Procs : Ready(p) /\ getPropertyThrows(p)
  \/ \E p \in Procs : Ready(p) /\ setProperty(p)
  \/ \E p \in Procs : Ready(p) /\ setPropertyThrows(p)

Spec == Init /\ [][Next]_vars

\* Process p may take a step and no other process is inside a call.
OneAtATime(p) == Ready(p) /\ \A q \in Procs \ {p} : pc[q] = "idle"

\* Calls handled one at a time, each running to completion, with every
\* parameter object and every receiver.
NextCalls ==
  \/ Continue
  \/ \E p \in Procs, a \in StoreArgs : OneAtATime(p) /\ getAnalyticsClientId(p, a)
  \/ \E p \in Procs, recv \in Receivers, o \in ParamInputs, a \in StoreArgs :
       OneAtATime(p) /\ sendAnalyticsEvent(p, recv, o, a)
  \/ \E p \in Procs, o \in ParamInputs, a \in StoreArgs :
       OneAtATime(p) /\ generateAnalyticsTrackingUrl(p, o, a)
  \/ \E p \in Procs : OneAtATime(p) /\ getProperty(p)
  \/ \E p \in Procs : OneAtATime(p) /\ getPropertyThrows(p)
  \/ \E p \in Procs : OneAtATime(p) /\ setProperty(p)
  \/ \E p \in Procs : OneAtATime(p) /\ setPropertyThrows(p)

SpecCalls == Init /\ [][NextCalls]_vars

(* ------------------------- reading a finished call --------------------- *)

Normalizes(c) == c.op \in {"sendAnalyticsEvent", "generateAnalyticsTrackingUrl"}

\* _addRequiredParameters returned in call c.
Normalized(c) == Normalizes(c) /\ c.outcome \in {"returned", "TransportError"}

\* getAnalyticsClientId returned in call c, called directly or by _addRequiredParameters.
GotClientId(c) == Normalized(c) \/ (c.op = "getAnalyticsClientId" /\ c.outcome = "returned")

\* The identifier getAnalyticsClientId returned in call c.
ReturnedId(c) == IF c.op = "getAnalyticsClientId" THEN c.id ELSE GetKey(c.params, "cid")

NoRequest(c) == c.direct = 0 /\ c.delegated = 0

(* -------------------------------- claims -------------------------------- *)

\* C1: a call of sendAnalyticsEvent or generateAnalyticsTrackingUrl whose
\* parameters have no truthy tid, made while ANALYTICS_TRACKING_ID is not set,
\* ends with the tracking-ID-required error, having read no property, written
\* no property and sent no request; the step leaves the stores and the cached
\* client identifiers as they were.
C1_MissingTrackingIdFailsFirst ==
  [][ (/\ Normalizes(last')
       /\ Falsy(GetKey(last'.parameters, "tid"))
       /\ Falsy(ANALYTICS_TRACKING_ID))
      => (/\ last'.outcome = TRACKING_ID_REQUIRED
          /\ last'.reads = 0
          /\ last'.writes = 0
          /\ NoRequest(last')
          /\ store' = store
          /\ clientId' = clientId
          /\ nextUuid' = nextUuid) ]_vars

\* C1 happens: such a call has failed in a process that has no cached
\* identifier, against a store that holds none.
C1_Witness ==
  /\ last.op = "sendAnalyticsEvent"
  /\ last.outcome = TRACKING_ID_REQUIRED
  /\ clientId[last.proc] = Undefined
  /\ store[StoreOf(last.optPropertyStore)]["clientId"] = Null

\* C2: in one process, every return of getAnalyticsClientId, direct or inside a
\* normalization (where it becomes cid), gives the string its first return gave.
C2_SameClientIdEveryCall ==
  GotClientId(last) =>
    /\ ReturnedId(last) = firstId[last.proc]
    /\ clientId[last.proc] = firstId[last.proc]
    /\ Truthy(firstId[last.proc])

\* C2 happens: a call answered from the cache, for another store than the one
\* the process persisted its identifier in.
C2_Witness ==
  /\ GotClientId(last)
  /\ last.reads = 0
  /\ persisted[last.proc].s = "user"
  /\ last.optPropertyStore = "document"

\* C3: a call that reads clientId as absent generates an identifier, stores it
\* under clientId and returns it; a call that reads a stored value returns that
\* value and neither generates nor writes; and a stored clientId keeps its
\* value, as long as no read of that store fell between another call's read and
\* write.
C3_StoredClientIdIsReused ==
  [][ /\ \A s \in Stores :
           (Truthy(store[s]["clientId"]) /\ s \notin raced') => store'[s] = store[s]
      /\ (GotClientId(last') /\ last'.reads = 1) =>
           IF Falsy(last'.got)
           THEN /\ last'.writes = 1
                /\ Truthy(ReturnedId(last'))
                /\ store'[StoreOf(last'.optPropertyStore)]["clientId"] = ReturnedId(last')
                /\ store'[StoreOf(last'.optPropertyStore)]["locale"] = Str("en")
           ELSE /\ last'.writes = 0
                /\ ReturnedId(last') = last'.got
                /\ store' = store
                /\ nextUuid' = nextUuid ]_vars

\* C3 happens: a process has returned the identifier another process stored.
C3_Witness ==
  /\ GotClientId(last)
  /\ last.reads = 1
  /\ Truthy(last.got)
  /\ \E q \in Procs \ {last.proc} :
       /\ persisted[q] = [s |-> StoreOf(last.optPropertyStore), id |-> last.got]
       /\ ReturnedId(last) = persisted[q].id

\* C4: a process calls setProperty at most once in its lifetime; the call sets
\* clientId and nothing else, in a call that has just read clientId as absent;
\* a call that read a stored value writes nothing.
C4_AtMostOneWrite ==
  [][ /\ \A p \in Procs :
           /\ writes'[p] <= 1
           /\ writes'[p] # writes[p] =>
                /\ pc[p] = "setProperty"
                /\ Falsy(frame[p].got)
                /\ last'.reads = 1
                /\ StoreOf(frame[p].optPropertyStore) \notin raced' =>
                     Falsy(store[StoreOf(frame[p].optPropertyStore)]["clientId"])
      /\ store' # store =>
           \E p \in Procs, s \in Stores :
             /\ writes'[p] # writes[p]
             /\ s = StoreOf(frame[p].optPropertyStore)
             /\ store' = [store EXCEPT ![s]["clientId"] = clientId[p]]
      /\ Truthy(last'.got) => last'.writes = 0 ]_vars

\* C4 happens: a process that has written once has finished a later call.
C4_Witness ==
  /\ last.proc \in Procs
  /\ writes[last.proc] = 1
  /\ last.writes = 0
  /\ GotClientId(last)

C6_AsClaimed ==
  Normalized(last) =>
    /\ {"v", "tid", "cid", "t", "z"} \subseteq Keys(last.params)
    /\ last.op = "generateAnalyticsTrackingUrl" =>
         (~HasKey(last.params, "aip") /\ ~HasKey(last.params, "ds"))

\* C6, amended: a normalized set has v, tid, cid, t and z; normalized for
\* sendAnalyticsEvent it has ds and aip = '1'; normalized for
\* generateAnalyticsTrackingUrl it has aip or ds only where the caller's object
\* had that key, with the caller's value.
C6_RequiredKeys ==
  Normalized(last) =>
    /\ {"v", "tid", "cid", "t", "z"} \subseteq Keys(last.params)
    /\ last.op = "sendAnalyticsEvent" =>
         /\ HasKey(last.params, "ds")
         /\ GetKey(last.params, "aip") = Str("1")
    /\ last.op = "generateAnalyticsTrackingUrl" =>
         \A key \in {"aip", "ds"} :
           HasKey(last.params, key) =>
             /\ HasKey(last.parameters, key)
             /\ GetKey(last.params, key) = GetKey(last.parameters, key)

\* C6 happens: generateAnalyticsTrackingUrl has normalized an object its caller
\* gave a ds.
C6_Witness ==
  /\ last.op = "generateAnalyticsTrackingUrl"
  /\ Normalized(last)
  /\ GetKey(last.params, "ds") = Str("email")
  /\ ~HasKey(last.params, "aip")

\* The URL the claim describes: a key alone where the value is falsy,
\* key=encoded-value otherwise, joined with a literal ampersand.
UrlAsClaimed(params) ==
  Then([i \in 1..Len(params) |->
          IF Falsy(params[i].v) THEN params[i].k
          ELSE params[i].k \o "=" \o encodeURI(params[i].v)],
       LAMBDA pairs : COLLECT \o "?" \o JoinFrom(pairs, 1, "&"))

\* C7 as stated: generateAnalyticsTrackingUrl returns the endpoint followed by
\* the pairs of the normalized set, a falsy value giving the key alone, joined
\* with a literal ampersand, and sends no request.
C7_AsClaimed ==
  (last.op = "generateAnalyticsTrackingUrl" /\ Normalized(last)) =>
    /\ last.url = UrlAsClaimed(last.params)
    /\ NoRequest(last)

\* C8 as stated: a sendAnalyticsEvent call whose normalization succeeds hands
\* the request to ErrorHandler once, and fetches nothing itself, when the
\* ErrorHandler library is loaded, and fetches once itself when it is not.
C8_AsClaimed ==
  (last.op = "sendAnalyticsEvent" /\ Normalized(last)) =>
    IF ErrorHandler
    THEN last.delegated = 1 /\ last.direct = 0
    ELSE last.direct = 1 /\ last.delegated = 0

\* Process p generated an identifier and its setProperty threw.
WriteFailed(p) == writes[p] >= 1 /\ persisted[p] = NotPersisted

\* C9 as stated: the call whose setProperty threw still returns the identifier
\* it generated.
C9_AsClaimed ==
  (last.outcome = "StoreError" /\ last.writes = 1) =>
    ReturnedId(last) = clientId[last.proc]

\* C9, amended: the call whose setProperty throws ends with that exception and
\* returns nothing, the store is as it was and the generated identifier stays
\* cached; every later call of that process gets the cached identifier without
\* a store access; a call of another process that reads clientId as absent
\* generates and stores an identifier of its own.
C9_WriteFailureKeepsCache ==
  [][ \A p \in Procs :
        /\ (writes'[p] # writes[p] /\ persisted'[p] = NotPersisted) =>
             /\ last'.proc = p
             /\ last'.outcome = "StoreError"
             /\ ReturnedId(last') = Undefined
             /\ NoRequest(last')
             /\ store' = store
             /\ Truthy(clientId[p])
             /\ clientId' = clientId
        /\ (WriteFailed(p) /\ last'.proc = p /\ GotClientId(last')) =>
             /\ last'.reads = 0
             /\ last'.writes = 0
             /\ ReturnedId(last') = clientId[p]
             /\ store' = store
             /\ clientId' = clientId
        /\ (WriteFailed(p) /\ last'.proc \in Procs \ {p} /\ GotClientId(last')
              /\ last'.reads = 1 /\ Falsy(last'.got)) =>
             /\ last'.writes = 1
             /\ ReturnedId(last') # clientId[p] ]_vars

\* C9 happens: a process whose setProperty threw has been answered from its
\* cache, and another process has stored an identifier of its own.
C9_Witness ==
  /\ last.proc \in Procs
  /\ WriteFailed(last.proc)
  /\ GotClientId(last)
  /\ last.reads = 0
  /\ \E q \in Procs \ {last.proc} :
       /\ persisted[q] # NotPersisted
       /\ persisted[q].id # clientId[last.proc]

\* Two processes each stored an identifier of their own in store s and returned
\* it, and the store holds one of the two.
Diverged(s) ==
  \E p, q \in Procs :
    /\ p # q
    /\ persisted[p].s = s
    /\ persisted[q].s = s
    /\ persisted[p].id # persisted[q].id
    /\ firstId[p] = persisted[p].id
    /\ firstId[q] = persisted[q].id
    /\ store[s]["clientId"] \in {persisted[p].id, persisted[q].id}

\* C10: two processes come to store and return different identifiers for one
\* store only if a read of that store fell between another call's read and write.
C10_DivergenceNeedsRace == \A s \in Stores : Diverged(s) => s \in raced

\* C10 happens: two interleaved first calls have stored and returned different
\* identifiers.
C10_Witness == \E s \in Stores : Diverged(s) /\ s \in raced

\* Process p, holding a cached identifier and standing between two calls,
\* begins a call in this step.
CallsWithCache(p) ==
  /\ pc[p] = "idle"
  /\ Truthy(clientId[p])
  /\ (pc'[p] # "idle" \/ last'.proc = p)

\* C11: the cached identifier is not keyed by property store.  A call of
\* getAnalyticsClientId, sendAnalyticsEvent or generateAnalyticsTrackingUrl that
\* a process makes while it holds a cached identifier ends in the step it
\* begins in, whatever store it passes (so also for another store than the one
\* the identifier was stored in): it has read no property and written none,
\* every store is as it was, so that a store without clientId is still without
\* it, the cache is as it was, no identifier was generated, and the identifier
\* returned, or set as cid, is the cached one; the only call that gets no
\* identifier is the one that fails for its missing tracking ID.
C11_CacheNotKeyedByStore ==
  [][ \A p \in Procs : CallsWithCache(p) =>
        /\ last'.proc = p
        /\ pc'[p] = "idle"
        /\ last'.reads = 0
        /\ last'.writes = 0
        /\ writes' = writes
        /\ store' = store
        /\ \A s \in Stores :
             Falsy(store[s]["clientId"]) => Falsy(store'[s]["clientId"])
        /\ clientId' = clientId
        /\ nextUuid' = nextUuid
        /\ IF GotClientId(last')
           THEN ReturnedId(last') = clientId[p]
           ELSE last'.outcome = TRACKING_ID_REQUIRED ]_vars

\* C11 happens: a process that stored its identifier in the user properties has
\* been given it, as cid over the one its caller supplied, in a call that
\* passed the document store, which is still without clientId.
C11_Witness ==
  /\ Normalized(last)
  /\ last.optPropertyStore = "document"
  /\ last.reads = 0
  /\ persisted[last.proc].s = "user"
  /\ GetKey(last.parameters, "cid") = Str("mine")
  /\ GetKey(last.params, "cid") = persisted[last.proc].id
  /\ store["document"]["clientId"] = Null

====
